---- MODULE Spec2Model ----
(***************************************************************************)
(* A model of server.py: the Flask handlers over the single app_state      *)
(* document kept in MongoDB (get_state / update_state) and the             *)
(* email-to-text notification path (send_email_notification / api_notify). *)
(*                                                                         *)
(* Three specifications share the module:                                  *)
(*   Spec            the state store: concurrent GET/POST /api/state       *)
(*   SpecNotify      POST /api/state/notify and send_email_notification    *)
(*   SpecRecipients  the recipient loop of send_email_notification alone   *)
(***************************************************************************)
EXTENDS Integers, Sequences, FiniteSets, TLC

VARIABLES
    \* ---- state store (Spec) ----
    store,          \* STATE_COLLECTION: the documents of app_state, in natural order
    DEFAULT_STATE,  \* the module-level dict DEFAULT_STATE (insert_one mutates it)
    clock,          \* what datetime.now(timezone.utc) returns
    oids,           \* how many ObjectIds have been generated so far
    pc,             \* per request worker: where its handler stands
    local,          \* per request worker: the handler's local variables
    lastApplied,    \* history: the last replace_one that was applied
    hist,           \* history: the completed requests, in completion order
    \* ---- notification path (SpecNotify) ----
    GMAIL_SENDER, GMAIL_APP_PASSWORD,   \* os.getenv(...) at import, "" when unset
    npc,            \* where the notify call stands: "idle", "smtp", "done"
    call,           \* the call in progress: who called, with what
    attempted,      \* whether this call opened an SMTP connection
    nlog,           \* what send_email_notification printed for this call
    nresp,          \* the HTTP response of api_notify (status 0: none)
    served,         \* number of calls started
    \* ---- recipient loop (SpecRecipients) ----
    targets,        \* the notifications list handed to the loop
    rest,           \* the part of it the loop has not visited yet
    recipients      \* the recipients list built so far

storeVars  == <<store, DEFAULT_STATE, clock, oids, pc, local, lastApplied, hist>>
notifyVars == <<GMAIL_SENDER, GMAIL_APP_PASSWORD, npc, call, attempted, nlog, nresp, served>>
recipVars  == <<targets, rest, recipients>>
vars       == <<storeVars, notifyVars, recipVars>>

----------------------------------------------------------------------------
\* Bounds of the model

NumWorkers  == 2    \* request workers running handlers concurrently
MaxRequests == 2    \* requests served in one behaviour
MaxClock    == 2    \* clock readings after import: ImportTime+1 .. ImportTime+MaxClock

Procs == 1..NumWorkers

----------------------------------------------------------------------------
\* Documents: Python dicts, as functions from key to value

NoDoc == [k \in {} |-> 0]

Keys(d) == DOMAIN d

\* d with key k set to v (d[k] = v)
SetKey(d, k, v) == [x \in Keys(d) \cup {k} |-> IF x = k THEN v ELSE d[x]]

\* d without key k (del d[k])
DelKey(d, k) == [x \in Keys(d) \ {k} |-> d[x]]

\* bson ObjectId and its str() form: str(ObjectId) is a different value
ObjectId(n)  == <<"ObjectId", n>>
str(oid)     == <<"str", oid[2]>>
IsObjectId(v) == v[1] = "ObjectId"

DEFAULT_ADMIN_PASSWORD_HASH == "a665a45920422f9d417e4867efdc4fb8a04a1f3fff1fa07e998e86f7f7a27ae3"
DEFAULT_PIN       == "1234"
DEFAULT_THRESHOLD == 10
NotificationSlots == 5
ImportTime        == 0

\* The dict literal bound to DEFAULT_STATE when the module is imported
DefaultStateLiteral ==
    [ scores        |-> [Lila |-> 0, Maryn |-> 0],
      currentPin    |-> DEFAULT_PIN,
      adminPassHash |-> DEFAULT_ADMIN_PASSWORD_HASH,
      notifications |-> [i \in 1..NotificationSlots |-> [phone |-> "", carrier |-> ""]],
      changeHistory |-> [Lila |-> <<>>, Maryn |-> <<>>],
      pinThreshold  |-> DEFAULT_THRESHOLD,
      lastUpdated   |-> ImportTime ]

\* Request bodies a client posts to /api/state
CallerStamp == MaxClock + 7          \* a lastUpdated a client made up
StaleId     == str(ObjectId(0))      \* an '_id' string a client sends back

PostedDocs ==
    { \* a full state, with the synthetic _id and a client-side lastUpdated
      [ scores        |-> [Lila |-> 3, Maryn |-> 1],
        currentPin    |-> "1111",
        adminPassHash |-> DEFAULT_ADMIN_PASSWORD_HASH,
        notifications |-> [i \in 1..NotificationSlots |-> [phone |-> "", carrier |-> ""]],
        changeHistory |-> [Lila |-> <<3>>, Maryn |-> <<1>>],
        pinThreshold  |-> DEFAULT_THRESHOLD,
        lastUpdated   |-> CallerStamp,
        _id           |-> StaleId ],
      \* a partial state: fewer keys, different values
      [ scores        |-> [Lila |-> 0, Maryn |-> 7],
        currentPin    |-> "2222" ],
      \* {} : an empty JSON object
      NoDoc }

----------------------------------------------------------------------------
\* The MongoDB collection, as pymongo presents it. Each call on the collection
\* is one step (the server applies find_one, insert_one and replace_one one at a
\* time, the upsert included); between two calls of one handler the calls of
\* other requests may fall. The server is taken to be reachable.

\* find_one(): the first document in natural order, None when there is none
find_one(coll) == IF coll = <<>> THEN NoDoc ELSE coll[1]

\* insert_one, client side: pymongo adds an '_id' to the dict it is handed when
\* the dict has none, so the caller's dict is changed in place
WithId(doc, n) ==
    IF "_id" \in Keys(doc) THEN doc ELSE SetKey(doc, "_id", ObjectId(n))

\* insert_one, server side: the unique index on _id (DuplicateKeyError)
DuplicateKey(coll, doc) == \E i \in DOMAIN coll : coll[i]["_id"] = doc["_id"]

\* replace_one as a field-wise update ($set) would behave: keys the payload lacks
\* survive from the document replaced
replace_one_merging(coll, data, n) ==
    IF coll = <<>>
    THEN <<SetKey(data, "_id", ObjectId(n))>>
    ELSE [coll EXCEPT ![1] =
             [x \in Keys(coll[1]) \cup Keys(data) |->
                 IF x = "_id" THEN coll[1]["_id"]
                 ELSE IF x \in Keys(data) THEN data[x] ELSE coll[1][x]]]

\* replace_one({}, data, upsert=True): the first document matching {} is replaced
\* as a whole and keeps its _id; with no document, data is inserted under a new _id
replace_one(coll, data, n) ==
    IF coll = <<>>
    THEN <<SetKey(data, "_id", ObjectId(n))>>
    ELSE [coll EXCEPT ![1] = SetKey(data, "_id", coll[1]["_id"])]

\* The lastUpdated of the document a reader would get now ({} when none)
LastUpdatedOf(coll) ==
    IF coll = <<>> \/ "lastUpdated" \notin Keys(coll[1])
    THEN {} ELSE {coll[1]["lastUpdated"]}

StoredLastUpdated == LastUpdatedOf(store)

----------------------------------------------------------------------------
\* get_state / api_get_state

\* state['_id'] = str(state['_id'])
ConvertId(state) == SetKey(state, "_id", str(state["_id"]))

\* jsonify(state): Flask's encoder has no case for a bson ObjectId (TypeError)
Serializable(state) == ("_id" \in Keys(state)) => ~IsObjectId(state["_id"])

\* api_get_state: the status the client sees, given what get_state did
ApiGetStatus(ret, raised) ==
    IF raised # "" THEN 500 ELSE IF Serializable(ret) THEN 200 ELSE 500

Started == Len(hist) + Cardinality({q \in Procs : pc[q] # "idle"})

NoWrite == [valid |-> FALSE, sent |-> NoDoc, written |-> NoDoc, luAtCall |-> {}]
NoLocal == [data |-> NoDoc, sent |-> NoDoc, luAtCall |-> {}, basis |-> NoWrite]

\* A completed request, for the history: what was asked, what came back, and
\* what the collection held around it
Entry(op, arg, ret, raised, status, created, basis, luBefore, luAfter) ==
    [ op |-> op, arg |-> arg, ret |-> ret, raised |-> raised,
      status |-> status, created |-> created, at |-> clock, basis |-> basis,
      luBefore |-> luBefore, luAfter |-> luAfter ]

\* GET /api/state, lines 92-96 and 173: find_one, and when a document came back,
\* return it with its _id converted. Otherwise go on to insert the default.
GetState(p) ==
    /\ pc[p] = "idle"
    /\ Started < MaxRequests
    /\ LET state == find_one(store) IN
       IF state # NoDoc
       THEN LET ret == ConvertId(state) IN
            /\ hist' = Append(hist, Entry("get", NoDoc, ret, "", ApiGetStatus(ret, ""),
                                          FALSE, lastApplied, {}, {}))
            /\ UNCHANGED <<pc, local>>
       ELSE /\ pc' = [pc EXCEPT ![p] = "insert"]
            /\ local' = [local EXCEPT ![p].basis = lastApplied]
            /\ UNCHANGED hist
    /\ UNCHANGED <<store, DEFAULT_STATE, clock, oids, lastApplied>>
    /\ UNCHANGED <<notifyVars, recipVars>>

\* lines 99-100 and 173: insert_one(DEFAULT_STATE), return DEFAULT_STATE.copy()
GetInsert(p) ==
    /\ pc[p] = "insert"
    /\ LET doc == WithId(DEFAULT_STATE, oids + 1) IN
       /\ DEFAULT_STATE' = doc
       /\ oids' = IF doc = DEFAULT_STATE THEN oids ELSE oids + 1
       /\ IF DuplicateKey(store, doc)
          THEN /\ store' = store
               /\ hist' = Append(hist, Entry("get", NoDoc, NoDoc, "DuplicateKeyError",
                                             ApiGetStatus(NoDoc, "DuplicateKeyError"),
                                             FALSE, local[p].basis, {}, {}))
          ELSE /\ store' = Append(store, doc)
               /\ hist' = Append(hist, Entry("get", NoDoc, doc, "", ApiGetStatus(doc, ""),
                                             TRUE, local[p].basis, {}, {}))
    /\ pc' = [pc EXCEPT ![p] = "idle"]
    /\ local' = [local EXCEPT ![p] = NoLocal]
    /\ UNCHANGED <<clock, lastApplied>>
    /\ UNCHANGED <<notifyVars, recipVars>>

----------------------------------------------------------------------------
\* update_state / api_update_state

\* update_state without line 109: the payload's own lastUpdated, if any, is kept
Stamped_NotStamped(data, now) ==
    IF "_id" \in Keys(data) THEN DelKey(data, "_id") ELSE data

\* update_state stamping only a payload that brings no lastUpdated of its own
Stamped_CallerWins(data, now) ==
    LET d == IF "_id" \in Keys(data) THEN DelKey(data, "_id") ELSE data
    IN  IF "lastUpdated" \in Keys(d) THEN d ELSE SetKey(d, "lastUpdated", now)

\* lines 106-109: drop a client-sent '_id', stamp lastUpdated with the current time
Stamped(data, now) ==
    SetKey(IF "_id" \in Keys(data) THEN DelKey(data, "_id") ELSE data,
           "lastUpdated", now)

\* POST /api/state, lines 180-182 and 106-109: refuse an empty payload, otherwise
\* strip and stamp the payload; the write itself is a later step
PostState(p, D) ==
    /\ pc[p] = "idle"
    /\ Started < MaxRequests
    /\ IF D = NoDoc
       THEN /\ hist' = Append(hist, Entry("post", D, NoDoc, "", 400, FALSE, NoWrite, {}, {}))
            /\ UNCHANGED <<pc, local>>
       ELSE /\ local' = [local EXCEPT ![p] = [data |-> Stamped(D, clock), sent |-> D,
                                             luAtCall |-> StoredLastUpdated,
                                             basis |-> NoWrite]]
            /\ pc' = [pc EXCEPT ![p] = "replace"]
            /\ UNCHANGED hist
    /\ UNCHANGED <<store, DEFAULT_STATE, clock, oids, lastApplied>>
    /\ UNCHANGED <<notifyVars, recipVars>>

\* line 112 and 187: replace_one({}, data, upsert=True), then the success response
PostReplace(p) ==
    /\ pc[p] = "replace"
    /\ store' = replace_one(store, local[p].data, oids + 1)
    /\ oids' = IF store = <<>> THEN oids + 1 ELSE oids
    /\ lastApplied' = [valid |-> TRUE, sent |-> local[p].sent,
                       written |-> local[p].data, luAtCall |-> local[p].luAtCall]
    /\ hist' = Append(hist, Entry("post", local[p].sent, NoDoc, "", 200, FALSE,
                                  lastApplied', StoredLastUpdated,
                                  LastUpdatedOf(store')))
    /\ pc' = [pc EXCEPT ![p] = "idle"]
    /\ local' = [local EXCEPT ![p] = NoLocal]
    /\ UNCHANGED <<DEFAULT_STATE, clock>>
    /\ UNCHANGED <<notifyVars, recipVars>>

\* Time passes: a later datetime.now() is taken never to be earlier
Tick ==
    /\ clock < ImportTime + MaxClock
    /\ clock' = clock + 1
    /\ UNCHANGED <<store, DEFAULT_STATE, oids, pc, local, lastApplied, hist>>
    /\ UNCHANGED <<notifyVars, recipVars>>

----------------------------------------------------------------------------
\* Values the variables of the other specifications rest at

NoCall == [via |-> "none", message |-> "", notifications |-> <<>>, entered |-> FALSE]
NoResp == [status |-> 0, body |-> ""]

NotifyIdle ==
    /\ GMAIL_SENDER = "" /\ GMAIL_APP_PASSWORD = ""
    /\ npc = "idle" /\ call = NoCall /\ attempted = FALSE
    /\ nlog = "" /\ nresp = NoResp /\ served = 0

RecipIdle == targets = <<>> /\ rest = <<>> /\ recipients = <<>>

\* What an earlier run of the server may have left in the collection: the default
\* it materialized, under the first ObjectId
LeftBehind == SetKey(DefaultStateLiteral, "_id", ObjectId(1))

StoreRest ==
    /\ DEFAULT_STATE = DefaultStateLiteral
    /\ clock = ImportTime
    /\ pc = [p \in Procs |-> "idle"]
    /\ local = [p \in Procs |-> NoLocal]
    /\ lastApplied = NoWrite
    /\ hist = <<>>

StoreIdleEmpty == store = <<>> /\ oids = 0 /\ StoreRest

StoreIdle ==
    /\ store \in {<<>>, <<LeftBehind>>}
    /\ oids = Len(store)
    /\ StoreRest

----------------------------------------------------------------------------
\* send_email_notification: the recipients

\* Strings are sequences of one-character strings where the code looks inside
\* them (phone); carrier names and domains are looked up or copied whole
Digits == {"0", "1", "2", "3", "4", "5", "6", "7", "8", "9"}

CARRIER_GATEWAYS ==
    ("Verizon" :> "vtext.com") @@ ("AT&T" :> "txt.att.net") @@
    ("T-Mobile" :> "tmomail.net") @@ ("Sprint" :> "messaging.sprintpcs.com") @@
    ("Boost Mobile" :> "sms.alltel.net") @@ ("MetroPCS" :> "mymetropcs.com") @@
    ("Cricket" :> "mms.aiowireless.net") @@ ("US Cellular" :> "email.uscc.net")

PhoneLength == 10

\* "".join(filter(str.isdigit, str(phone)))
RECURSIVE FilterDigits(_)
FilterDigits(phone) ==
    IF phone = <<>> THEN <<>>
    ELSE IF Head(phone) \in Digits
         THEN <<Head(phone)>> \o FilterDigits(Tail(phone))
         ELSE FilterDigits(Tail(phone))

\* CARRIER_GATEWAYS.get(carrier) or carrier
GatewayDomain(carrier) ==
    IF carrier \in DOMAIN CARRIER_GATEWAYS THEN CARRIER_GATEWAYS[carrier] ELSE carrier

\* f"{phone}@{domain}"
EmailAddress(phone, domain) == phone \o <<"@", domain>>

\* The loop body with the length test made on the phone as typed, before the
\* non-digits are taken out
Visit_LengthBeforeStrip(recips, n) ==
    IF n.phone # <<>> /\ n.carrier # ""
    THEN IF Len(n.phone) = PhoneLength
         THEN Append(recips, EmailAddress(FilterDigits(n.phone), GatewayDomain(n.carrier)))
         ELSE recips
    ELSE recips

\* One pass of the loop body, lines 125-136, over notification n
Visit(recips, n) ==
    IF n.phone # <<>> /\ n.carrier # ""
    THEN LET domain == GatewayDomain(n.carrier)
             phone  == FilterDigits(n.phone)
         IN  IF Len(phone) = PhoneLength
             THEN Append(recips, EmailAddress(phone, domain))
             ELSE recips
    ELSE recips

\* lines 123-136: the whole loop
RECURSIVE BuildFrom(_, _)
BuildFrom(recips, notifications) ==
    IF notifications = <<>> THEN recips
    ELSE BuildFrom(Visit(recips, Head(notifications)), Tail(notifications))

BuildRecipients(notifications) == BuildFrom(<<>>, notifications)

----------------------------------------------------------------------------
\* The recipient loop on its own (SpecRecipients)

MaxTargets == 2     \* length of a notifications list

SamplePhones ==
    { <<>>,
      <<"5","5","5","-","1","2","3","-","4","5","6","7">>,      \* 555-123-4567
      <<"5","5","5","1","2","3","4","5","6","7">>,              \* 5551234567
      <<"1","2","3","4","5">>,                                  \* 12345
      <<"1","5","5","5","1","2","3","4","5","6","7">>,          \* 15551234567
      <<"5","5","5","-","1","2","3","-","4","5">> }             \* 555-123-45

SampleCarriers == (DOMAIN CARRIER_GATEWAYS) \cup {"", "example.org"}

SampleTargets == [phone : SamplePhones, carrier : SampleCarriers]

ListsOver(S) == UNION {[1..n -> S] : n \in 0..MaxTargets}

InitRecipients ==
    /\ targets \in ListsOver(SampleTargets)
    /\ rest = targets
    /\ recipients = <<>>
    /\ StoreIdleEmpty /\ NotifyIdle

\* for n in notifications: one iteration
LoopStep ==
    /\ rest # <<>>
    /\ recipients' = Visit(recipients, Head(rest))
    /\ rest' = Tail(rest)
    /\ UNCHANGED targets
    /\ UNCHANGED <<storeVars, notifyVars>>

NextRecipients == LoopStep

SpecRecipients == InitRecipients /\ [][NextRecipients]_vars

----------------------------------------------------------------------------
\* send_email_notification and api_notify (SpecNotify)

MaxCalls == 2       \* notification calls in one behaviour

SKIP_CREDENTIALS == "EMAIL SKIP: Credentials missing."
SKIP_RECIPIENTS  == "EMAIL SKIP: No valid email-to-text recipients configured."
EMAIL_SUCCESS    == "EMAIL SUCCESS: Notification sent."
ERROR_AUTH       == "EMAIL ERROR: SMTP Authentication Failed."
ERROR_SEND       == "EMAIL ERROR: Failed to send email"

SuccessResp == [status |-> 200, body |-> "Notification triggered."]
NoPayload   == [status |-> 400, body |-> "No JSON payload provided."]
MissingResp == [status |-> 400, body |-> "Missing notificationMessage or recipients."]

\* What send_email_notification does before it touches the network, lines
\* 119-140: "connect" when it goes on to open the SMTP connection
SendDecision_NoRecipientCheck(sender, password, notifications) ==
    IF sender = "" \/ password = "" THEN SKIP_CREDENTIALS ELSE "connect"

SendDecision(sender, password, notifications) ==
    IF sender = "" \/ password = "" THEN SKIP_CREDENTIALS
    ELSE IF BuildRecipients(notifications) = <<>> THEN SKIP_RECIPIENTS
    ELSE "connect"

NotifyTargets ==
    { [phone |-> <<>>, carrier |-> ""],
      [phone |-> <<"1","2","3","4","5">>, carrier |-> "Verizon"],
      [phone |-> <<"5","5","5","-","1","2","3","-","4","5","6","7">>, carrier |-> "Verizon"],
      [phone |-> <<"5","5","5","1","2","3","4","5","6","7">>, carrier |-> "example.org"] }

Messages == {"", "Lila reached 10 points"}

\* send_email_notification(message, notifications), up to the SMTP connection;
\* resp is what the caller answers when the function returns at once
StartSend(via, message, notifications, resp) ==
    LET d == SendDecision(GMAIL_SENDER, GMAIL_APP_PASSWORD, notifications) IN
    /\ call' = [via |-> via, message |-> message, notifications |-> notifications,
                entered |-> TRUE]
    /\ IF d = "connect"
       THEN /\ npc' = "smtp"
            /\ attempted' = TRUE
            /\ nlog' = ""
            /\ nresp' = NoResp
       ELSE /\ npc' = "done"
            /\ attempted' = FALSE
            /\ nlog' = d
            /\ nresp' = resp

\* POST /api/state/notify, lines 197-211, up to the SMTP connection. hasBody is
\* whether request.json is a non-empty object
ApiNotify(hasBody, message, notifications) ==
    /\ npc = "idle"
    /\ served < MaxCalls
    /\ served' = served + 1
    /\ IF ~hasBody \/ message = "" \/ notifications = <<>>
       THEN /\ call' = [via |-> "api", message |-> message,
                        notifications |-> notifications, entered |-> FALSE]
            /\ npc' = "done"
            /\ attempted' = FALSE
            /\ nlog' = ""
            /\ nresp' = IF ~hasBody THEN NoPayload ELSE MissingResp
       ELSE StartSend("api", message, notifications, SuccessResp)
    /\ UNCHANGED <<GMAIL_SENDER, GMAIL_APP_PASSWORD>>
    /\ UNCHANGED <<storeVars, recipVars>>

\* send_email_notification called as a function, outside a request
Dispatch(message, notifications) ==
    /\ npc = "idle"
    /\ served < MaxCalls
    /\ served' = served + 1
    /\ StartSend("direct", message, notifications, NoResp)
    /\ UNCHANGED <<GMAIL_SENDER, GMAIL_APP_PASSWORD>>
    /\ UNCHANGED <<storeVars, recipVars>>

\* The with-block of lines 148-157 ends with outcome `line`; the function returns
\* None either way and api_notify goes on to line 211
SmtpEnds(line) ==
    /\ npc = "smtp"
    /\ npc' = "done"
    /\ nlog' = line
    /\ nresp' = IF call.via = "api" THEN SuccessResp ELSE NoResp
    /\ UNCHANGED <<GMAIL_SENDER, GMAIL_APP_PASSWORD, call, attempted, served>>
    /\ UNCHANGED <<storeVars, recipVars>>

\* lines 149-153: connected, logged in, message sent
SmtpSent ==
    /\ attempted
    /\ SmtpEnds(EMAIL_SUCCESS)

\* lines 154-155: smtplib.SMTPAuthenticationError
SmtpAuthError ==
    /\ attempted
    /\ SmtpEnds(ERROR_AUTH)

\* lines 156-157: any other exception (connection refused, timeout, ...)
SmtpError ==
    /\ attempted
    /\ SmtpEnds(ERROR_SEND)

\* The response is out; the server takes the next call
NextCall ==
    /\ npc = "done"
    /\ npc' = "idle"
    /\ call' = NoCall
    /\ attempted' = FALSE
    /\ nlog' = ""
    /\ nresp' = NoResp
    /\ UNCHANGED <<GMAIL_SENDER, GMAIL_APP_PASSWORD, served>>
    /\ UNCHANGED <<storeVars, recipVars>>

----------------------------------------------------------------------------
\* The state store: the server just imported, the collection empty or holding
\* the document of an earlier run

Init == StoreIdle /\ NotifyIdle /\ RecipIdle

Next ==
    \/ \E p \in Procs : GetState(p)
    \/ \E p \in Procs : GetInsert(p)
    \/ \E p \in Procs : \E D \in PostedDocs : PostState(p, D)
    \/ \E p \in Procs : PostReplace(p)
    \/ Tick

Spec == Init /\ [][Next]_vars

\* The notification path: the credentials are whatever the environment held
InitNotify ==
    /\ GMAIL_SENDER \in {"", "tracker@gmail.com"}
    /\ GMAIL_APP_PASSWORD \in {"", "app-password"}
    /\ npc = "idle" /\ call = NoCall /\ attempted = FALSE
    /\ nlog = "" /\ nresp = NoResp /\ served = 0
    /\ StoreIdleEmpty /\ RecipIdle

NextNotify ==
    \/ \E b \in BOOLEAN : \E m \in Messages : \E ns \in ListsOver(NotifyTargets) :
           ApiNotify(b, m, ns)
    \/ \E m \in Messages : \E ns \in ListsOver(NotifyTargets) : Dispatch(m, ns)
    \/ SmtpSent
    \/ SmtpAuthError
    \/ SmtpError
    \/ NextCall

SpecNotify == InitNotify /\ [][NextNotify]_vars

----------------------------------------------------------------------------
\* Claims about the state store

\* d and e have the same keys and values, keys in F aside
SameExcept(d, e, F) ==
    /\ Keys(d) \ F = Keys(e) \ F
    /\ \A k \in Keys(d) \ F : d[k] = e[k]

Gets  == {i \in DOMAIN hist : hist[i].op = "get"}
Posts == {i \in DOMAIN hist : hist[i].op = "post" /\ hist[i].status = 200}

\* The fetches whose find_one came after a replace_one was applied; basis is the
\* last one applied before it
GetsAfterWrite == {i \in Gets : hist[i].basis.valid}

\* The _id strings the collection can give out
StorageIds == {str(ObjectId(n)) : n \in 1..oids}

\* C1: the collection never holds more than one AppState document, whatever the
\* interleaving of get_state and update_state calls.
C1_AtMostOneDocument == Len(store) <= 1

\* What C2 says of a fetch, the '_id' part aside: it returns the document D of the
\* last replace on every field but lastUpdated, and lastUpdated is the server's
\* stamp of that replace, no earlier than what was stored when the replace was called
ReturnsReplaced(h) ==
    /\ h.raised = ""
    /\ h.status = 200
    /\ SameExcept(h.ret, h.basis.sent, {"lastUpdated", "_id"})
    /\ "lastUpdated" \in Keys(h.ret)
    /\ LastUpdatedOf(<<h.basis.written>>) = {h.ret["lastUpdated"]}
    /\ h.ret["lastUpdated"] \in ImportTime..h.at
    /\ \A t \in h.basis.luAtCall : h.ret["lastUpdated"] >= t

C3_DefaultMaterializedOnce ==
    \A i \in Gets :
        hist[i].created =>
            /\ SameExcept(hist[i].ret, DefaultStateLiteral, {"_id", "lastUpdated"})
            /\ hist[i].ret["lastUpdated"] = hist[i].at
            /\ \A j \in Gets :
                   (j = i + 1 /\ ~hist[j].basis.valid) => hist[j].ret = hist[i].ret

\* C4: every fetch hands an AppState document to its caller, never an error.
C4_FetchAlwaysReturnsDocument ==
    \A i \in Gets :
        /\ hist[i].raised = ""
        /\ hist[i].status = 200
        /\ hist[i].ret # NoDoc

\* C9: replacement is a total overwrite and the last writer wins: the stored
\* document is, on every field but lastUpdated (and the storage identity), the
\* payload of the replace applied last; no document of the collection mixes the
\* fields of two payloads or keeps a field of the document it replaced.
C9_LastWriterWins ==
    /\ lastApplied.valid =>
           /\ store # <<>>
           /\ SameExcept(store[1], lastApplied.sent, {"lastUpdated", "_id"})
    /\ \A i \in DOMAIN store :
           \E D \in (PostedDocs \ {NoDoc}) \cup {DefaultStateLiteral} :
               SameExcept(store[i], D, {"lastUpdated", "_id"})

\* Two replaces with different payloads that overlapped: the one that stamped
\* first wrote last
C9_Witness ==
    \E i, j \in Posts :
        /\ i < j
        /\ hist[i].arg # hist[j].arg
        /\ \E a \in hist[i].luAfter : \E b \in hist[j].luAfter : b < a

\* C10 as stated: the stored lastUpdated is a server time, never the caller's
\* value, and no write leaves it lower than it was just before that write.
C10_LastUpdatedNeverDecreases ==
    /\ \A t \in StoredLastUpdated : t \in ImportTime..clock
    /\ \A i \in Posts :
           /\ hist[i].luAfter # {}
           /\ \A a \in hist[i].luAfter : \A b \in hist[i].luBefore : a >= b

\* C10 amended: the stored lastUpdated is a server time, never the caller's
\* value, and each write leaves it at least as high as it was when that
\* replaceState call began; calls that overlap may lower it.
C10_LastUpdatedServerAssigned ==
    /\ store # <<>> => StoredLastUpdated # {}
    /\ \A t \in StoredLastUpdated : t \in ImportTime..clock
    /\ \A i \in Posts :
           /\ hist[i].luAfter # {}
           /\ \A a \in hist[i].luAfter :
                  /\ a \in ImportTime..hist[i].at
                  /\ \A b \in hist[i].basis.luAtCall : a >= b

\* A write over a document already stored, by a caller that sent its own lastUpdated
C10_Witness ==
    \E i \in Posts :
        /\ "lastUpdated" \in Keys(hist[i].arg)
        /\ hist[i].basis.luAtCall # {}
        /\ hist[i].luBefore # {}

----------------------------------------------------------------------------
\* Claims about the notification path

\* A target the specification lets through: phone and carrier both non-empty and
\* exactly ten digit characters in the phone
Qualifies(t) ==
    /\ t.phone # <<>>
    /\ t.carrier # ""
    /\ Cardinality({i \in DOMAIN t.phone : t.phone[i] \in Digits}) = 10

IsDigit(c) == c \in Digits

KnownCarriers ==
    {"Verizon", "AT&T", "T-Mobile", "Sprint", "Boost Mobile", "MetroPCS", "Cricket",
     "US Cellular"}

\* The address the specification gives a target: its digits, "@", its domain
AddressOf(t) ==
    [i \in 1..12 |->
        IF i <= 10 THEN SelectSeq(t.phone, IsDigit)[i]
        ELSE IF i = 11 THEN "@"
        ELSE IF t.carrier \in KnownCarriers THEN CARRIER_GATEWAYS[t.carrier]
        ELSE t.carrier]

\* The send has nothing to go on: no credentials, or no target that qualifies
NothingToSend ==
    \/ GMAIL_SENDER = ""
    \/ GMAIL_APP_PASSWORD = ""
    \/ \A i \in DOMAIN call.notifications : ~Qualifies(call.notifications[i])

\* C5: the notify request answers without waiting for the mail transport, its
\* answer only says the job was accepted, and it never shows a transport failure.
C5_RequestNeverWaitsForTransport ==
    /\ ~(call.via = "api" /\ npc = "smtp")
    /\ (call.via = "api" /\ call.entered /\ npc = "done") => nresp = SuccessResp

\* C6: a failed send is caught, and the response of the notify request run inline
\* is a failure when the send failed and a success only when it succeeded.
C6_SendFailureReported ==
    (call.via = "api" /\ npc = "done" /\ attempted) =>
        /\ nlog \in {EMAIL_SUCCESS, ERROR_AUTH, ERROR_SEND}
        /\ nresp.status = 200 <=> nlog = EMAIL_SUCCESS

\* C7: with an empty list, a list of invalid targets only, or a missing sender or
\* credential, send_email_notification opens no connection and ends at once,
\* reporting a skip and no error.
C7_NothingToSendIsSkipped ==
    (call.via # "none" /\ NothingToSend) =>
        /\ ~attempted
        /\ npc = "done"
        /\ call.entered =>
               /\ nlog \in {SKIP_CREDENTIALS, SKIP_RECIPIENTS}
               /\ call.via = "api" => nresp = SuccessResp
               /\ call.via = "direct" => nresp = NoResp

\* The function called with an empty list, credentials present: skipped
C7_Witness ==
    /\ call.via = "direct"
    /\ call.notifications = <<>>
    /\ GMAIL_SENDER # "" /\ GMAIL_APP_PASSWORD # ""
    /\ npc = "done"
    /\ nlog = SKIP_RECIPIENTS

\* C8: the recipients are, in input order, the addresses of exactly the targets
\* whose phone and carrier are non-empty and whose phone holds ten digits once the
\* other characters are removed; the address is the digits, "@", and the
\* carrier's gateway for the eight known carriers, the carrier string otherwise.
C8_RecipientsBuilt ==
    LET visited == SubSeq(targets, 1, Len(targets) - Len(rest))
        kept    == SelectSeq(visited, Qualifies)
    IN  /\ DOMAIN CARRIER_GATEWAYS = KnownCarriers
        /\ Len(recipients) = Len(kept)
        /\ \A i \in DOMAIN kept : recipients[i] = AddressOf(kept[i])

\* A list fully visited: a dropped target first, then a punctuated phone on a
\* known carrier
C8_Witness ==
    /\ rest = <<>>
    /\ Len(targets) = 2
    /\ ~Qualifies(targets[1]) /\ targets[1].phone # <<>> /\ targets[1].carrier # ""
    /\ Qualifies(targets[2]) /\ Len(targets[2].phone) > 10
    /\ targets[2].carrier = "Verizon"
    /\ Len(recipients) = 1

====
